---- MODULE Spec2Model ----
(***************************************************************************)
(* A model of the water-sort puzzle of src/src/game.rs (Tube, GameState)   *)
(* and of the best-first search and the replay of src/src/solver.rs.       *)
(*                                                                         *)
(* A Color is one of 1..NumColors (the source compares the whole           *)
(* name/r/g/b tuple, so a colour is an identity and nothing more).  A Tube *)
(* is a record [capacity, content], content written bottom to top as in    *)
(* the source's Vec.  A GameState is its only field, the vector of tubes.  *)
(* Tube indices in moves are 0-based as in the source; tube i of the Rust  *)
(* vector is element i + 1 of the sequence.                                *)
(***************************************************************************)
EXTENDS Integers, Sequences, FiniteSets, TLC

\* Bounds of the model.
MaxTubes == 3
MaxCap == 4
NumColors == 2
\* Largest number of cells (tubes * capacity) of a puzzle.
MaxCells == 9
\* The loop of solver runs while position <= 5000 (solver.rs:59).  A run
\* of 5000 expansions is out of reach of the model checker, so the model
\* runs the same loop, with the same comparison, under a small budget.
Budget == 4

Colors == 1..NumColors

VARIABLES
    game_state,     \* the puzzle: main's game_state, the argument of solver
    last_call,      \* the last call of make_move / make_move_in_place made on it
    pc,             \* "idle" | "called" | "loop" | "returned" | "replay" |
                    \* "done" | "panic"
    queue,          \* solver: the entries of the BinaryHeap
    visited,        \* solver: the Vec of popped states
    position,       \* solver: progress.position()
    solution,       \* the move list solver returned
    display_state,  \* display_solution: its own (mutable) game_state
    step            \* display_solution: number of moves replayed so far

vars == <<game_state, last_call, pc, queue, visited, position, solution,
          display_state, step>>

-----------------------------------------------------------------------------
(* Tube *)

Last(s) == s[Len(s)]

ButLast(s) == SubSeq(s, 1, Len(s) - 1)

IsFull(tube) == Len(tube.content) >= tube.capacity

IsEmpty(tube) == Len(tube.content) = 0

IsComplete(tube) ==
    /\ IsFull(tube)
    /\ \A i \in 1..Len(tube.content) : tube.content[i] = tube.content[1]

\* is_pour_valid with its first two tests in the other order.
IsPourValidSwapped(self, other) ==
    IF IsEmpty(self) THEN "NoContent"
    ELSE IF IsFull(other) THEN "MaxCapacity"
    ELSE IF IsComplete(self) \/ IsComplete(other) THEN "CantMove"
    ELSE IF ~IsEmpty(other) /\ Last(self.content) # Last(other.content)
         THEN "DiffColor"
    ELSE "Ok"

\* is_pour_valid without its test of complete tubes.
IsPourValidNoComplete(self, other) ==
    IF IsFull(other) THEN "MaxCapacity"
    ELSE IF IsEmpty(self) THEN "NoContent"
    ELSE IF ~IsEmpty(other) /\ Last(self.content) # Last(other.content)
         THEN "DiffColor"
    ELSE "Ok"

\* is_pour_valid with its test of complete tubes before the other tests.
IsPourValidCompleteFirst(self, other) ==
    IF IsComplete(self) \/ IsComplete(other) THEN "CantMove"
    ELSE IF IsFull(other) THEN "MaxCapacity"
    ELSE IF IsEmpty(self) THEN "NoContent"
    ELSE IF ~IsEmpty(other) /\ Last(self.content) # Last(other.content)
         THEN "DiffColor"
    ELSE "Ok"

\* The Result of is_pour_valid: "Ok" or the name of the Error.
IsPourValid(self, other) ==
    IF IsFull(other) THEN "MaxCapacity"
    ELSE IF IsEmpty(self) THEN "NoContent"
    ELSE IF IsComplete(self) \/ IsComplete(other) THEN "CantMove"
    ELSE IF ~IsEmpty(other) /\ Last(self.content) # Last(other.content)
         THEN "DiffColor"
    ELSE "Ok"

\* The loop of pour without its test of the colour of the popped unit.
RECURSIVE PourLoopNoColor(_, _, _)
PourLoopNoColor(content, temp, other_empty_cap) ==
    IF content = <<>> THEN [content |-> content, temp |-> temp]
    ELSE LET pour_color == Last(content)
             popped == ButLast(content)
         IN  IF Len(temp) >= other_empty_cap
             THEN [content |-> Append(popped, pour_color), temp |-> temp]
             ELSE PourLoopNoColor(popped, Append(temp, pour_color),
                                  other_empty_cap)

\* The loop of pour without its test of the room left in the other tube.
RECURSIVE PourLoopNoCap(_, _, _)
PourLoopNoCap(content, temp, other_empty_cap) ==
    IF content = <<>> THEN [content |-> content, temp |-> temp]
    ELSE LET pour_color == Last(content)
             popped == ButLast(content)
         IN  IF temp # <<>> /\ temp[1] # pour_color
             THEN [content |-> Append(popped, pour_color), temp |-> temp]
             ELSE PourLoopNoCap(popped, Append(temp, pour_color),
                                other_empty_cap)

\* The while-let loop of pour: content is self.content, temp is temp_content.
RECURSIVE PourLoop(_, _, _)
PourLoop(content, temp, other_empty_cap) ==
    IF content = <<>> THEN [content |-> content, temp |-> temp]
    ELSE LET pour_color == Last(content)
             popped == ButLast(content)
         IN  IF \/ Len(temp) >= other_empty_cap
                \/ (temp # <<>> /\ temp[1] # pour_color)
             THEN [content |-> Append(popped, pour_color), temp |-> temp]
             ELSE PourLoop(popped, Append(temp, pour_color), other_empty_cap)

\* pour(&mut self, other: &mut Tube): the error, and both tubes afterwards.
Pour(self, other) ==
    LET valid == IsPourValid(self, other) IN
    IF valid # "Ok" THEN [err |-> valid, self |-> self, other |-> other]
    ELSE LET other_empty_cap == other.capacity - Len(other.content)
             moved == PourLoop(self.content, <<>>, other_empty_cap)
         IN  [err   |-> "Ok",
              self  |-> [self EXCEPT !.content = moved.content],
              other |-> [other EXCEPT !.content = @ \o moved.temp]]

\* -(x / capacity) * log2(x / capacity) in millionths, rounded; row = capacity.
PLogP ==
    << <<0>>,
       <<500000, 0>>,
       <<528321, 389975, 0>>,
       <<500000, 500000, 311278, 0>>,
       <<464386, 528771, 442179, 257542, 0>>,
       <<430827, 528321, 500000, 389975, 219195, 0>> >>

\* The value color_probs holds for a colour: its number of units in the tube.
ColorCount(tube, color) ==
    Cardinality({i \in 1..Len(tube.content) : tube.content[i] = color})

RECURSIVE SumEntropy(_, _)
SumEntropy(tube, colors) ==
    IF colors = {} THEN 0
    ELSE LET color == CHOOSE c \in colors : TRUE
             x == ColorCount(tube, color)
         IN  (IF x = 0 THEN 0 ELSE PLogP[tube.capacity][x])
             + SumEntropy(tube, colors \ {color})

\* entropy with the length of the content for the capacity in prob.
TubeEntropyOverLength(tube) ==
    SumEntropy([tube EXCEPT !.capacity = Len(tube.content)], Colors)

\* Tube::entropy, in millionths.
TubeEntropy(tube) == SumEntropy(tube, Colors)

-----------------------------------------------------------------------------
(* GameState *)

RECURSIVE SumTubes(_, _)
SumTubes(tubes, n) ==
    IF n = 0 THEN 0 ELSE TubeEntropy(tubes[n]) + SumTubes(tubes, n - 1)

\* GameState::entropy, in millionths.
Entropy(tubes) == SumTubes(tubes, Len(tubes))

\* check_win without its test of the entropy.
CheckWinLenOnly(tubes) ==
    \A i \in 1..Len(tubes) :
        ~(Len(tubes[i].content) # 0
          /\ Len(tubes[i].content) # tubes[i].capacity)

CheckWin(tubes) ==
    \A i \in 1..Len(tubes) :
        /\ ~(TubeEntropy(tubes[i]) > 0)
        /\ ~(Len(tubes[i].content) # 0
             /\ Len(tubes[i].content) # tubes[i].capacity)

\* The body of the inner loop of available_moves without its second test.
PairMovesOneWay(tubes, i, j) ==
    IF IsPourValid(tubes[i + 1], tubes[j + 1]) = "Ok"
    THEN << <<i, j>> >> ELSE <<>>

\* The body of the inner loop of available_moves for the pair i < j.
PairMoves(tubes, i, j) ==
    (IF IsPourValid(tubes[i + 1], tubes[j + 1]) = "Ok"
     THEN << <<i, j>> >> ELSE <<>>)
    \o
    (IF IsPourValid(tubes[j + 1], tubes[i + 1]) = "Ok"
     THEN << <<j, i>> >> ELSE <<>>)

RECURSIVE MovesLoop(_, _, _)
MovesLoop(tubes, i, j) ==
    IF i >= Len(tubes) THEN <<>>
    ELSE IF j >= Len(tubes) THEN MovesLoop(tubes, i + 1, i + 2)
    ELSE PairMoves(tubes, i, j) \o MovesLoop(tubes, i, j + 1)

AvailableMoves(tubes) == MovesLoop(tubes, 0, 1)

InvalidMoveTo == "InvalidMove(To tube doesn't exist)"

InvalidMoveFrom == "InvalidMove(From tube doesn't exist)"

\* make_move that takes the last tube for a tube that does not exist.
MakeMoveOffByOne(tubes, from, to) ==
    IF to + 1 >= Len(tubes)
    THEN [err |-> InvalidMoveTo, state |-> tubes]
    ELSE IF from >= Len(tubes)
    THEN [err |-> InvalidMoveFrom, state |-> tubes]
    ELSE LET poured == Pour(tubes[from + 1], tubes[to + 1])
         IN  IF poured.err # "Ok"
             THEN [err |-> poured.err, state |-> tubes]
             ELSE [err   |-> "Ok",
                   state |-> [[tubes EXCEPT ![from + 1] = poured.self]
                                  EXCEPT ![to + 1] = poured.other]]

\* make_move(&self, from, to): the error and the state returned on Ok.
MakeMove(tubes, from, to) ==
    LET new_game_state == tubes IN
    IF to >= Len(new_game_state)
    THEN [err |-> InvalidMoveTo, state |-> tubes]
    ELSE IF from >= Len(new_game_state)
    THEN [err |-> InvalidMoveFrom, state |-> tubes]
    ELSE LET temp_tube == new_game_state[to + 1]
             poured == Pour(new_game_state[from + 1], temp_tube)
         IN  IF poured.err # "Ok"
             THEN [err |-> poured.err, state |-> tubes]
             ELSE [err   |-> "Ok",
                   state |-> [[new_game_state EXCEPT ![from + 1] = poured.self]
                                  EXCEPT ![to + 1] = poured.other]]

\* make_move_in_place without its final store of tube2.
MakeMoveInPlaceNoStore(tubes, from, to) ==
    IF to >= Len(tubes)
    THEN [err |-> InvalidMoveTo, state |-> tubes]
    ELSE IF from >= Len(tubes)
    THEN [err |-> InvalidMoveFrom, state |-> tubes]
    ELSE LET poured == Pour(tubes[from + 1], tubes[to + 1])
         IN  [err |-> poured.err,
              state |-> [tubes EXCEPT ![from + 1] = poured.self]]

\* make_move_in_place that looks up the from tube before the to tube.
MakeMoveInPlaceFromFirst(tubes, from, to) ==
    IF from >= Len(tubes)
    THEN [err |-> InvalidMoveFrom, state |-> tubes]
    ELSE IF to >= Len(tubes)
    THEN [err |-> InvalidMoveTo, state |-> tubes]
    ELSE LET poured == Pour(tubes[from + 1], tubes[to + 1])
         IN  IF poured.err # "Ok"
             THEN [err |-> poured.err, state |-> tubes]
             ELSE [err   |-> "Ok",
                   state |-> [[tubes EXCEPT ![from + 1] = poured.self]
                                  EXCEPT ![to + 1] = poured.other]]

\* make_move_in_place that stores tube2 in the first tube.
MakeMoveInPlaceWrongSlot(tubes, from, to) ==
    IF to >= Len(tubes)
    THEN [err |-> InvalidMoveTo, state |-> tubes]
    ELSE IF from >= Len(tubes)
    THEN [err |-> InvalidMoveFrom, state |-> tubes]
    ELSE LET temp_tube == tubes[to + 1]
             poured == Pour(tubes[from + 1], temp_tube)
             tube1_done == [tubes EXCEPT ![from + 1] = poured.self]
         IN  IF poured.err # "Ok"
             THEN [err |-> poured.err, state |-> tube1_done]
             ELSE [err   |-> "Ok",
                   state |-> [tube1_done EXCEPT ![1] = poured.other]]

\* make_move_in_place(&mut self, from, to): the error and self afterwards.
MakeMoveInPlace(tubes, from, to) ==
    IF to >= Len(tubes)
    THEN [err |-> InvalidMoveTo, state |-> tubes]
    ELSE IF from >= Len(tubes)
    THEN [err |-> InvalidMoveFrom, state |-> tubes]
    ELSE LET temp_tube == tubes[to + 1]
             poured == Pour(tubes[from + 1], temp_tube)
             tube1_done == [tubes EXCEPT ![from + 1] = poured.self]
         IN  IF poured.err # "Ok"
             THEN [err |-> poured.err, state |-> tube1_done]
             ELSE [err   |-> "Ok",
                   state |-> [tube1_done EXCEPT ![to + 1] = poured.other]]

-----------------------------------------------------------------------------
(* solver *)

\* ALPHA * entropy + (1 - ALPHA) * moves.len(), in units of 10^-8.
Score(element) ==
    65 * Entropy(element.game_state) + 35 * 1000000 * Len(element.moves)

\* cmp with self and other not exchanged: the order of a max-heap on the score.
CmpNotInverted(self, other) ==
    LET self_cmp == Score(self)
        other_cmp == Score(other)
    IN  IF self_cmp > other_cmp THEN 1
        ELSE IF self_cmp < other_cmp THEN -1
        ELSE IF Len(self.moves) > Len(other.moves) THEN 1
        ELSE IF Len(self.moves) < Len(other.moves) THEN -1
        ELSE 0

\* Ord::cmp of QueueElement: 1 = Greater, 0 = Equal, -1 = Less.
Cmp(self, other) ==
    LET self_cmp == Score(self)
        other_cmp == Score(other)
    IN  IF other_cmp > self_cmp THEN 1
        ELSE IF other_cmp < self_cmp THEN -1
        ELSE IF Len(other.moves) > Len(self.moves) THEN 1
        ELSE IF Len(other.moves) < Len(self.moves) THEN -1
        ELSE 0

\* BinaryHeap::pop gives a greatest entry; which one of several entries that
\* compare Equal is an internal matter of the heap, so any of them may come.
PopCandidates(q) ==
    {i \in 1..Len(q) : \A j \in 1..Len(q) : Cmp(q[i], q[j]) >= 0}

RemoveAt(q, i) == SubSeq(q, 1, i - 1) \o SubSeq(q, i + 1, Len(q))

\* A test of visited that never finds the state.
ContainsNever(seq, x) == FALSE

\* visited.contains(&state)
Contains(seq, x) == \E i \in 1..Len(seq) : seq[i] = x

\* The move recorded with its two indices exchanged.
CurMovesSwapped(prev_moves, mov) == Append(prev_moves, <<mov[2], mov[1]>>)

\* The move pushed on an empty list instead of a clone of prev_moves.
CurMovesOnlyLast(prev_moves, mov) == << mov >>

\* cur_moves: prev_moves.clone() with mov pushed.
CurMoves(prev_moves, mov) == Append(prev_moves, mov)

\* The for loop over all_moves: the entries it pushes, in order.
RECURSIVE Expand(_, _, _, _)
Expand(tubes, prev_moves, all_moves, seen) ==
    IF all_moves = <<>> THEN <<>>
    ELSE LET mov == Head(all_moves)
             made == MakeMove(tubes, mov[1], mov[2])
             rest == Expand(tubes, prev_moves, Tail(all_moves), seen)
         IN  IF made.err = "Ok"
             THEN IF Contains(seen, made.state) THEN rest
                  ELSE << [moves |-> CurMoves(prev_moves, mov),
                           game_state |-> made.state] >> \o rest
             ELSE rest

-----------------------------------------------------------------------------
(* The puzzles main can build: tube_num tubes of one capacity tube_cap. *)

Contents(cap) == UNION {[1..n -> Colors] : n \in 0..cap}

Tubes(cap) == {[capacity |-> cap, content |-> c] : c \in Contents(cap)}

Shapes ==
    {sh \in (1..MaxTubes) \X (1..MaxCap) : sh[1] * sh[2] <= MaxCells}

AllStates == UNION {[1..sh[1] -> Tubes(sh[2])] : sh \in Shapes}

NoCall == [op |-> "none"]

Init ==
    /\ game_state \in AllStates
    /\ last_call = NoCall
    /\ pc = "idle"
    /\ queue = <<>>
    /\ visited = <<>>
    /\ position = 0
    /\ solution = <<>>
    /\ display_state = <<>>
    /\ step = 0

\* A caller applies make_move to the puzzle; the puzzle itself is untouched.
CallMakeMove(from, to) ==
    /\ pc = "idle"
    /\ pc' = "called"
    /\ last_call' = [op |-> "make_move", from |-> from, to |-> to,
                     before |-> game_state,
                     err |-> MakeMove(game_state, from, to).err,
                     state |-> MakeMove(game_state, from, to).state]
    /\ UNCHANGED <<game_state, queue, visited, position, solution,
                   display_state, step>>

\* A caller applies make_move_in_place to the puzzle.
CallMakeMoveInPlace(from, to) ==
    /\ pc = "idle"
    /\ pc' = "called"
    /\ last_call' = [op |-> "make_move_in_place", from |-> from, to |-> to,
                     before |-> game_state,
                     err |-> MakeMoveInPlace(game_state, from, to).err,
                     state |-> MakeMoveInPlace(game_state, from, to).state]
    /\ game_state' = MakeMoveInPlace(game_state, from, to).state
    /\ UNCHANGED <<queue, visited, position, solution, display_state, step>>

\* The caller has the result of its call and goes on with the puzzle.
Resume ==
    /\ pc = "called"
    /\ pc' = "idle"
    /\ last_call' = NoCall
    /\ UNCHANGED <<game_state, queue, visited, position, solution,
                   display_state, step>>

\* solver(&game_state) up to the loop: the seed is pushed.
SolverCall ==
    /\ pc = "idle"
    /\ pc' = "loop"
    /\ last_call' = NoCall
    /\ queue' = << [moves |-> <<>>, game_state |-> game_state] >>
    /\ visited' = <<>>
    /\ position' = 0
    /\ UNCHANGED <<game_state, solution, display_state, step>>

\* The while condition with its two tests joined by "or".
LoopGuardOr == queue # <<>> \/ position <= Budget

\* The while condition of the loop of solver.
LoopGuard == queue # <<>> /\ position <= Budget

\* The winning iteration with the progress counted before the return.
PopWinCounted ==
    /\ pc = "loop"
    /\ LoopGuard
    /\ \E i \in PopCandidates(queue) :
          LET element == queue[i] IN
          /\ CheckWin(element.game_state)
          /\ queue' = RemoveAt(queue, i)
          /\ visited' = Append(visited, element.game_state)
          /\ solution' = element.moves
    /\ pc' = "returned"
    /\ position' = position + 1
    /\ UNCHANGED <<game_state, last_call, display_state, step>>

\* One iteration that pops a winning state and returns its moves.
PopWin ==
    /\ pc = "loop"
    /\ LoopGuard
    /\ \E i \in PopCandidates(queue) :
          LET element == queue[i] IN
          /\ CheckWin(element.game_state)
          /\ queue' = RemoveAt(queue, i)
          /\ visited' = Append(visited, element.game_state)
          /\ solution' = element.moves
    /\ pc' = "returned"
    /\ UNCHANGED <<game_state, last_call, position, display_state, step>>

\* One iteration that pops a state, pushes its successors and counts it.
PopExpand ==
    /\ pc = "loop"
    /\ LoopGuard
    /\ \E i \in PopCandidates(queue) :
          LET element == queue[i]
              seen == Append(visited, element.game_state)
          IN
          /\ ~CheckWin(element.game_state)
          /\ visited' = seen
          /\ queue' = RemoveAt(queue, i)
                        \o Expand(element.game_state, element.moves,
                                  AvailableMoves(element.game_state), seen)
    /\ position' = position + 1
    /\ UNCHANGED <<game_state, last_call, pc, solution, display_state, step>>

\* The loop ends without a win: solver returns vec![].
LoopExit ==
    /\ pc = "loop"
    /\ ~LoopGuard
    /\ solution' = <<>>
    /\ pc' = "returned"
    /\ UNCHANGED <<game_state, last_call, queue, visited, position,
                   display_state, step>>

\* main hands the solution and the puzzle to display_solution.
DisplayCall ==
    /\ pc = "returned"
    /\ pc' = "replay"
    /\ display_state' = game_state
    /\ step' = 0
    /\ UNCHANGED <<game_state, last_call, queue, visited, position, solution>>

\* One iteration of display_solution: the move is made in place, and the
\* expect panics when make_move_in_place returns an Err.
ReplayStep ==
    /\ pc = "replay"
    /\ step < Len(solution)
    /\ LET mov == solution[step + 1]
           made == MakeMoveInPlace(display_state, mov[1], mov[2])
       IN  /\ display_state' = made.state
           /\ pc' = IF made.err = "Ok" THEN "replay" ELSE "panic"
           /\ step' = IF made.err = "Ok" THEN step + 1 ELSE step
    /\ UNCHANGED <<game_state, last_call, queue, visited, position, solution>>

\* The move list is exhausted: display_solution returns.
ReplayDone ==
    /\ pc = "replay"
    /\ step = Len(solution)
    /\ pc' = "done"
    /\ UNCHANGED <<game_state, last_call, queue, visited, position, solution,
                   display_state, step>>

Next ==
    \/ \E from \in 0..MaxTubes, to \in 0..MaxTubes : CallMakeMove(from, to)
    \/ \E from \in 0..MaxTubes, to \in 0..MaxTubes : CallMakeMoveInPlace(from, to)
    \/ Resume
    \/ SolverCall
    \/ PopWin
    \/ PopExpand
    \/ LoopExit
    \/ DisplayCall
    \/ ReplayStep
    \/ ReplayDone

Spec == Init /\ [][Next]_vars

-----------------------------------------------------------------------------
(* Vocabulary of the properties. *)

Min(a, b) == IF a <= b THEN a ELSE b

SameColor(content) == \A i \in 1..Len(content) : content[i] = content[1]

\* A tube that needs no more work: empty, or full with units of one colour.
Sorted(tube) ==
    \/ tube.content = <<>>
    \/ Len(tube.content) = tube.capacity /\ SameColor(tube.content)

WithinCapacity(tubes) ==
    \A i \in 1..Len(tubes) : Len(tubes[i].content) <= tubes[i].capacity

\* The length of the maximal run of equal colours at the top of a content.
TopRun(content) ==
    CHOOSE n \in 1..Len(content) :
        /\ \A i \in (Len(content) - n + 1)..Len(content) :
              content[i] = Last(content)
        /\ n = Len(content) \/ content[Len(content) - n] # Last(content)

InRange(tubes, index) == index \in 0..(Len(tubes) - 1)

\* Every GameState the program holds at the moment.
KnownStates ==
    {game_state}
    \cup {visited[i] : i \in 1..Len(visited)}
    \cup {queue[i].game_state : i \in 1..Len(queue)}
    \cup (IF pc \in {"replay", "done", "panic"} THEN {display_state} ELSE {})

\* The move list applied with the pure make_move, move by move.
RECURSIVE ReplayPure(_, _)
ReplayPure(tubes, moves) ==
    IF moves = <<>> THEN tubes
    ELSE ReplayPure(MakeMove(tubes, Head(moves)[1], Head(moves)[2]).state,
                    Tail(moves))

-----------------------------------------------------------------------------
\* C1 (as claimed): for every initial puzzle, the replay of the move list
\* that solver returned ends in a state for which check_win() is true.
C1_ReplayEndsInWin ==
    pc = "done" => CheckWin(display_state)

\* C1 (amended): when solver returns a non-empty move list, or the puzzle is
\* already won, the replay of the returned list ends in a state for which
\* check_win() is true.
C1_ReplayOfFoundSolutionWins ==
    (pc = "done" /\ (solution # <<>> \/ CheckWin(game_state)))
        => CheckWin(display_state)

C1_Witness ==
    /\ pc = "done"
    /\ solution # <<>>
    /\ ~CheckWin(game_state)
    /\ CheckWin(display_state)

\* C2: in any run of solver the number of states popped from the frontier
\* never exceeds the budget (every pop pushes the state to visited).
C2_PopsWithinBudget ==
    Len(visited) <= Budget

\* C3: for a state whose tubes are within their capacity, check_win() is
\* true exactly when every tube is empty or full with units of one colour.
C3_CheckWinIffSorted ==
    \A s \in KnownStates :
        WithinCapacity(s) =>
            (CheckWin(s) <=> \A i \in 1..Len(s) : Sorted(s[i]))

\* The solver has popped a state that only a tube of capacity 4 with 2 units
\* of one colour keeps from being won.
C3_Witness ==
    \E k \in 1..Len(visited) :
        /\ ~CheckWin(visited[k])
        /\ \E i \in 1..Len(visited[k]) :
              /\ visited[k][i].capacity = 4
              /\ Len(visited[k][i].content) = 2
              /\ SameColor(visited[k][i].content)
              /\ \A j \in 1..Len(visited[k]) : j # i => Sorted(visited[k][j])

\* C4: is_pour_valid reports the first violated rule in the order
\* MaxCapacity, NoContent, CantMove, DiffColor, and Ok when none is violated.
C4_FirstViolatedRule ==
    \A s \in KnownStates : \A i \in 1..Len(s), j \in 1..Len(s) :
        LET source == s[i]
            destination == s[j]
            result == IsPourValid(source, destination)
            full == Len(destination.content) >= destination.capacity
            empty == source.content = <<>>
            complete ==
                \/ (Len(source.content) >= source.capacity
                    /\ SameColor(source.content))
                \/ (Len(destination.content) >= destination.capacity
                    /\ SameColor(destination.content))
            differ == /\ destination.content # <<>>
                      /\ source.content # <<>>
                      /\ Last(source.content) # Last(destination.content)
        IN  /\ result = "MaxCapacity" <=> full
            /\ result = "NoContent" <=> (~full /\ empty)
            /\ result = "CantMove" <=> (~full /\ ~empty /\ complete)
            /\ result = "DiffColor"
                   <=> (~full /\ ~empty /\ ~complete /\ differ)
            /\ result = "Ok"
                   <=> (~full /\ ~empty /\ ~complete /\ ~differ)

\* A move from an empty tube into a full one was refused with MaxCapacity.
C4_Witness ==
    /\ pc = "called"
    /\ InRange(last_call.before, last_call.from)
    /\ InRange(last_call.before, last_call.to)
    /\ last_call.before[last_call.from + 1].content = <<>>
    /\ Len(last_call.before[last_call.to + 1].content)
         = last_call.before[last_call.to + 1].capacity
    /\ last_call.err = "MaxCapacity"

\* C5: a successful pour between two different tubes moves exactly
\* k = min(top run of the source, free room of the destination) units: the
\* source loses its top k units, the destination gains k units of that
\* colour on top, and what lies below keeps its place in both tubes.
C5_PourMovesTopRun ==
    (/\ pc = "called"
     /\ last_call.err = "Ok"
     /\ last_call.from # last_call.to)
    => LET source == last_call.before[last_call.from + 1]
           destination == last_call.before[last_call.to + 1]
           free == destination.capacity - Len(destination.content)
           k == Min(TopRun(source.content), free)
           after == last_call.state
       IN  /\ k >= 1
           /\ after[last_call.from + 1]
                = [source EXCEPT !.content =
                       SubSeq(source.content, 1, Len(source.content) - k)]
           /\ after[last_call.to + 1]
                = [destination EXCEPT !.content =
                       @ \o [n \in 1..k |-> Last(source.content)]]

\* A pour was made whose source had a longer run on top than the
\* destination had room for.
C5_Witness ==
    /\ pc = "called"
    /\ last_call.err = "Ok"
    /\ last_call.from # last_call.to
    /\ LET source == last_call.before[last_call.from + 1]
           destination == last_call.before[last_call.to + 1]
       IN  /\ destination.content # <<>>
           /\ TopRun(source.content)
                > destination.capacity - Len(destination.content)
           /\ Len(source.content) > TopRun(source.content)

\* C6: a successful pour keeps the sum of the two lengths and leaves the
\* destination within its capacity; so every state reached from a state
\* within capacity, by any moves, is within capacity.
C6_PourKeepsUnitsAndCapacity ==
    /\ \A s \in KnownStates : \A i \in 1..Len(s), j \in 1..Len(s) :
          LET poured == Pour(s[i], s[j]) IN
          poured.err = "Ok" =>
              /\ Len(poured.self.content) + Len(poured.other.content)
                   = Len(s[i].content) + Len(s[j].content)
              /\ Len(poured.other.content) <= poured.other.capacity
    /\ \A s \in KnownStates : WithinCapacity(s)
    /\ pc = "called" => WithinCapacity(last_call.state)

\* A move in place has filled its destination to the brim and left units of
\* the poured colour on top of the source.
C6_Witness ==
    /\ pc = "called"
    /\ last_call.op = "make_move_in_place"
    /\ last_call.err = "Ok"
    /\ last_call.from # last_call.to
    /\ LET source == game_state[last_call.from + 1]
           destination == game_state[last_call.to + 1]
       IN  /\ Len(destination.content) = destination.capacity
           /\ source.content # <<>>
           /\ Last(source.content) = Last(destination.content)

\* C7: for two different tubes i and j, (i, j) is in available_moves()
\* exactly when is_pour_valid(tube i, tube j) is Ok; the list has no pair
\* (i, i) and no pair twice.
C7_AvailableMovesAreTheValidPours ==
    \A s \in KnownStates :
        LET moves == AvailableMoves(s)
            listed == {moves[k] : k \in 1..Len(moves)}
        IN  /\ \A i \in 0..(Len(s) - 1), j \in 0..(Len(s) - 1) :
                  IF i = j THEN <<i, j>> \notin listed
                  ELSE <<i, j>> \in listed
                           <=> IsPourValid(s[i + 1], s[j + 1]) = "Ok"
            /\ listed \subseteq (0..(Len(s) - 1)) \X (0..(Len(s) - 1))
            /\ Cardinality(listed) = Len(moves)

\* The solver has expanded a state in which some pair of tubes can be
\* poured in both directions.
C7_Witness ==
    /\ position >= 1
    /\ \E i \in 0..(Len(visited[1]) - 1), j \in 0..(Len(visited[1]) - 1) :
          /\ i < j
          /\ \E k \in 1..Len(AvailableMoves(visited[1])) :
                /\ AvailableMoves(visited[1])[k] = <<i, j>>
                /\ k < Len(AvailableMoves(visited[1]))
                /\ AvailableMoves(visited[1])[k + 1] = <<j, i>>

\* C8: the replay of a move list that solver returned never gets an error
\* from make_move_in_place (the expect of display_solution never fails).
C8_ReplayNeverFails ==
    pc # "panic"

\* Two moves of a solution have been replayed and more are to come.
C8_Witness ==
    /\ pc = "replay"
    /\ step >= 2
    /\ step < Len(solution)

\* C9: make_move_in_place succeeds exactly when make_move does, fails with
\* the same error, and on success leaves the state make_move returns; so a
\* replay in place goes through the states of the pure transitions, and
\* ends in the state the search popped.
C9_InPlaceAgreesWithPure ==
    /\ pc = "called" =>
          LET pure == MakeMove(last_call.before, last_call.from, last_call.to)
              inplace == MakeMoveInPlace(last_call.before, last_call.from,
                                         last_call.to)
          IN  /\ pure.err = inplace.err
              /\ last_call.err = pure.err
              /\ pure.err = "Ok" =>
                    /\ inplace.state = pure.state
                    /\ last_call.state = pure.state
    /\ pc \in {"replay", "done", "panic"} =>
          display_state = ReplayPure(game_state, SubSeq(solution, 1, step))
    /\ (pc = "done" /\ solution # <<>>) =>
          display_state = visited[Len(visited)]

\* A move made in place has changed the puzzle.
C9_Witness ==
    /\ pc = "called"
    /\ last_call.op = "make_move_in_place"
    /\ last_call.err = "Ok"
    /\ game_state # last_call.before
    /\ game_state = MakeMove(last_call.before, last_call.from,
                             last_call.to).state

\* C10: make_move returns InvalidMove exactly when from or to is no index of
\* a tube; with both in range it returns what is_pour_valid returns for
\* (tube from, tube to).
C10_MakeMoveErrors ==
    (pc = "called" /\ last_call.op = "make_move") =>
        LET tubes == last_call.before
            both == InRange(tubes, last_call.from) /\ InRange(tubes, last_call.to)
        IN  /\ last_call.err \in {InvalidMoveTo, InvalidMoveFrom} <=> ~both
            /\ both => last_call.err
                         = IsPourValid(tubes[last_call.from + 1],
                                       tubes[last_call.to + 1])

\* make_move was called with a from index past the last tube and a to index
\* of the last tube, and returned InvalidMove.
C10_Witness ==
    /\ pc = "called"
    /\ last_call.op = "make_move"
    /\ last_call.from >= Len(last_call.before)
    /\ last_call.to = Len(last_call.before) - 1
    /\ last_call.err = InvalidMoveFrom

\* The moves of the list all succeed when applied in order with make_move.
RECURSIVE MovesSucceed(_, _)
MovesSucceed(tubes, moves) ==
    IF moves = <<>> THEN TRUE
    ELSE LET made == MakeMove(tubes, Head(moves)[1], Head(moves)[2])
         IN  made.err = "Ok" /\ MovesSucceed(made.state, Tail(moves))

\* The number of units of a colour in all the tubes of a state.
Units(tubes, color) ==
    Cardinality({cell \in (1..Len(tubes)) \X (1..(MaxCap + 1)) :
                    /\ cell[2] <= Len(tubes[cell[1]].content)
                    /\ tubes[cell[1]].content[cell[2]] = color})

\* The states one legal pour between two different tubes leads to.
LegalSuccessors(tubes) ==
    {MakeMove(tubes, mov[1], mov[2]).state :
        mov \in {m \in (0..(Len(tubes) - 1)) \X (0..(Len(tubes) - 1)) :
                    /\ m[1] # m[2]
                    /\ IsPourValid(tubes[m[1] + 1], tubes[m[2] + 1]) = "Ok"}}

RECURSIVE ReachableFrom(_, _)
ReachableFrom(seen, fresh) ==
    IF fresh = {} THEN seen
    ELSE LET new == UNION {LegalSuccessors(t) : t \in fresh} \ seen
         IN  ReachableFrom(seen \cup new, new)

\* The states that sequences of legal pours lead to.
Reachable(tubes) == ReachableFrom({tubes}, {tubes})

\* C11: every call of solver terminates.  While solver is in its loop the
\* exit can be taken or the pop of an iteration finds an entry (so that
\* PopWin or PopExpand can be taken); an iteration that stays in the loop
\* adds one to position, which the loop condition keeps from passing
\* Budget + 1; and the loop is left only by a return, on a popped winning
\* state, on an empty frontier, or on the budget.
C11_SolverTerminates ==
    /\ []((pc = "loop" /\ LoopGuard) => PopCandidates(queue) # {})
    /\ [][pc = "loop" =>
            \/ /\ pc' = "loop"
               /\ position' = position + 1
               /\ position' <= Budget + 1
            \/ /\ pc' = "returned"
               /\ \/ CheckWin(Last(visited'))
                  \/ queue' = <<>>
                  \/ position' > Budget]_vars

\* solver has returned on the budget, with entries left in the frontier and
\* no win popped.
C11_Witness ==
    /\ pc = "returned"
    /\ position > Budget
    /\ queue # <<>>
    /\ ~CheckWin(Last(visited))

\* C13: when the initial state is already won, solver returns the empty
\* list after one pop (the seed), with no move enumerated or applied:
\* nothing was pushed and no expansion was counted.
C13_WonPuzzleReturnsAtOnce ==
    (pc \in {"returned", "replay", "done"} /\ CheckWin(game_state)) =>
        /\ solution = <<>>
        /\ visited = << game_state >>
        /\ queue = <<>>
        /\ position = 0

\* solver has returned for a won puzzle that has a full tube.
C13_Witness ==
    /\ pc = "returned"
    /\ CheckWin(game_state)
    /\ \E i \in 1..Len(game_state) : game_state[i].content # <<>>
    /\ visited = << game_state >>

\* C14 (as claimed): no state is expanded more than once, visited never
\* holds two equal states.
C14_NoStateExpandedTwice ==
    \A i \in 1..Len(visited), j \in 1..Len(visited) :
        i # j => visited[i] # visited[j]

\* C14 (amended): no entry is pushed to the frontier whose state is already
\* in visited at the time of the push.  (A state pushed more than once
\* before its first pop is popped and expanded once for each of its entries.)
C14_NoVisitedStateIsPushed ==
    [][pc = "loop" =>
          \A k \in 1..Len(queue') :
              (\A i \in 1..Len(queue) : queue[i] # queue'[k])
                  => ~(\E v \in 1..Len(visited') :
                          visited'[v] = queue'[k].game_state)]_vars

\* A state has been popped a second time, and the search has gone on.
C14_Witness ==
    /\ pc = "loop"
    /\ queue # <<>>
    /\ \E i \in 1..Len(visited), j \in 1..Len(visited) :
          i < j /\ visited[i] = visited[j]

C16_UnitsConserved ==
    (pc = "called" /\ last_call.err = "Ok") =>
        \A color \in Colors :
            Units(last_call.state, color) = Units(last_call.before, color)

\* C17: when solver returns the empty list for a puzzle that is not won and
\* the loop ended on an empty frontier within the budget, no won state can
\* be reached from the puzzle by legal pours.
C17_ExhaustedMeansUnsolvable ==
    (/\ pc = "returned"
     /\ solution = <<>>
     /\ ~CheckWin(game_state)
     /\ queue = <<>>
     /\ position <= Budget)
    => \A t \in Reachable(game_state) : ~CheckWin(t)

\* solver has given up on an empty frontier after going through several
\* states.
C17_Witness ==
    /\ pc = "returned"
    /\ solution = <<>>
    /\ queue = <<>>
    /\ position <= Budget
    /\ position >= 3
    /\ Cardinality(Reachable(game_state)) >= 3

\* C18: a complete tube keeps its content through every successful move,
\* whatever the indices: in the puzzle under calls, in the replay, in what
\* make_move returns and in the states of the frontier.
C18_CompleteTubeStays ==
    [][/\ \A i \in 1..Len(game_state) :
              IsComplete(game_state[i]) => game_state'[i] = game_state[i]
       /\ pc = "replay" =>
              \A i \in 1..Len(display_state) :
                  IsComplete(display_state[i])
                      => display_state'[i] = display_state[i]
       /\ (pc' = "called" /\ last_call'.err = "Ok") =>
              \A i \in 1..Len(last_call'.before) :
                  IsComplete(last_call'.before[i])
                      => last_call'.state[i] = last_call'.before[i]
       /\ \A k \in 1..Len(queue') : \A i \in 1..Len(game_state') :
              IsComplete(game_state'[i])
                  => queue'[k].game_state[i] = game_state'[i]]_vars

\* A move in place has succeeded on a puzzle that has a complete tube.
C18_Witness ==
    /\ pc = "called"
    /\ last_call.op = "make_move_in_place"
    /\ last_call.err = "Ok"
    /\ \E i \in 1..Len(last_call.before) : IsComplete(last_call.before[i])

\* C19: the state of every frontier entry is the state that the entry's
\* move list, applied in order to the puzzle given to solver, leads to, and
\* every move of the list succeeds.
C19_EntryStateIsItsMovesApplied ==
    \A k \in 1..Len(queue) :
        /\ MovesSucceed(game_state, queue[k].moves)
        /\ ReplayPure(game_state, queue[k].moves) = queue[k].game_state

\* The frontier holds an entry that is three moves away from the puzzle.
C19_Witness ==
    /\ pc = "loop"
    /\ \E k \in 1..Len(queue) : Len(queue[k].moves) >= 3

\* C20: for every pair (from, to) of available_moves(), make_move returns Ok
\* and a state that differs from the one it was applied to, so the search
\* never takes the error branch of its expansion.
C20_AvailableMovesSucceed ==
    \A s \in KnownStates :
        \A k \in 1..Len(AvailableMoves(s)) :
            LET mov == AvailableMoves(s)[k]
                made == MakeMove(s, mov[1], mov[2])
            IN  made.err = "Ok" /\ made.state # s

\* The first expansion has pushed an entry for every available move of the
\* puzzle.
C20_Witness ==
    /\ pc = "loop"
    /\ position = 1
    /\ Len(queue) >= 3
    /\ Len(queue) = Len(AvailableMoves(game_state))

\* C21: make_move_in_place(from, to) changes nothing but the contents of
\* the tubes at from and to: the number of tubes, the capacities and the
\* other tubes stay; when it returns an error the state is as it was before
\* the call; and make_move leaves the state it is called on as it was.
C21_MoveChangesOnlyItsTubes ==
    pc = "called" =>
        /\ last_call.op = "make_move" => game_state = last_call.before
        /\ last_call.op = "make_move_in_place" =>
              /\ Len(game_state) = Len(last_call.before)
              /\ \A i \in 1..Len(game_state) :
                    /\ game_state[i].capacity = last_call.before[i].capacity
                    /\ (i - 1 # last_call.from /\ i - 1 # last_call.to)
                          => game_state[i] = last_call.before[i]
              /\ last_call.err # "Ok" => game_state = last_call.before

\* A move in place between the second and the third of three tubes has
\* succeeded.
C21_Witness ==
    /\ pc = "called"
    /\ last_call.op = "make_move_in_place"
    /\ last_call.err = "Ok"
    /\ last_call.from # last_call.to
    /\ last_call.from # 0
    /\ last_call.to # 0
    /\ game_state # last_call.before

\* C22: a state for which check_win() is true has no available move.
C22_WonStateHasNoMoves ==
    \A s \in KnownStates :
        (WithinCapacity(s) /\ CheckWin(s)) => AvailableMoves(s) = <<>>

\* The search has popped a won state with a full tube next to an empty one.
C22_Witness ==
    /\ pc = "returned"
    /\ position >= 1
    /\ CheckWin(Last(visited))
    /\ \E i \in 1..Len(game_state), j \in 1..Len(game_state) :
          Last(visited)[i].content # <<>> /\ Last(visited)[j].content = <<>>

\* The tubes of a state with units of one colour only that are neither
\* empty nor full.
PartMonochrome(tubes) ==
    {i \in 1..Len(tubes) :
        /\ 0 < Len(tubes[i].content)
        /\ Len(tubes[i].content) < tubes[i].capacity
        /\ SameColor(tubes[i].content)}

\* C23 (as claimed): a tube of one colour with 0 < length < capacity has
\* entropy zero.
C23_PartMonochromeEntropyZero ==
    \A s \in KnownStates :
        \A i \in PartMonochrome(s) : TubeEntropy(s[i]) = 0

\* C23 (amended): a tube of one colour with 0 < length < capacity has an
\* entropy above zero, the term of its colour with the capacity for
\* denominator, so check_win rejects its state at the entropy test already.
C23_PartMonochromeEntropyPositive ==
    \A s \in KnownStates :
        \A i \in PartMonochrome(s) :
            /\ TubeEntropy(s[i]) = PLogP[s[i].capacity][Len(s[i].content)]
            /\ TubeEntropy(s[i]) > 0
            /\ ~CheckWin(s)

\* solver has popped a state whose tubes are all of one colour or empty,
\* one of them partly filled.
C23_Witness ==
    /\ visited # <<>>
    /\ PartMonochrome(Last(visited)) # {}
    /\ \A i \in 1..Len(Last(visited)) :
          \/ Last(visited)[i].content = <<>>
          \/ SameColor(Last(visited)[i].content)

\* C24 (as claimed): is_pour_valid, and so make_move, reports CantMove
\* whenever the source or the destination is complete.
C24_CompleteMeansCantMove ==
    \A s \in KnownStates :
        \A i \in 1..Len(s), j \in 1..Len(s) :
            (IsComplete(s[i]) \/ IsComplete(s[j])) =>
                /\ IsPourValid(s[i], s[j]) = "CantMove"
                /\ MakeMove(s, i - 1, j - 1).err = "CantMove"

\* C24 (amended): when the source or the destination is complete,
\* is_pour_valid, and so make_move, reports MaxCapacity if the destination
\* is full, as a complete destination always is, and CantMove otherwise.
C24_CompleteMeansCantMoveUnlessFull ==
    \A s \in KnownStates :
        \A i \in 1..Len(s), j \in 1..Len(s) :
            (IsComplete(s[i]) \/ IsComplete(s[j])) =>
                LET err == IF IsFull(s[j]) THEN "MaxCapacity" ELSE "CantMove"
                IN  /\ IsPourValid(s[i], s[j]) = err
                    /\ MakeMove(s, i - 1, j - 1).err = err

\* make_move has refused a pour into a complete tube from a tube that is
\* not empty, and another from a complete tube into a tube with room.
C24_Witness ==
    /\ pc = "called"
    /\ last_call.op = "make_move"
    /\ last_call.from # last_call.to
    /\ last_call.err = "MaxCapacity"
    /\ IsComplete(last_call.before[last_call.to + 1])
    /\ last_call.before[last_call.from + 1].content # <<>>
    /\ \E j \in 1..Len(last_call.before) :
          /\ ~IsFull(last_call.before[j])
          /\ MakeMove(last_call.before, last_call.to, j - 1).err = "CantMove"

====
